---- MODULE Spec2Model ----
(***************************************************************************)
(* The node editor of the graph view (NodeModal) and the JSON store        *)
(* (useJson): normalizeNodeData, setValueAtPath, handleSave, handleCancel, *)
(* setJson and clear, with the jsonc-parser calls modify/applyEdits that   *)
(* handleSave makes.                                                        *)
(***************************************************************************)
EXTENDS Integers, Sequences, FiniteSets, TLC

\* Bounds of the model.
MaxNum == 1     \* numbers 1..MaxNum occur as scalars of edited values
MaxIdx == 1     \* array indices 0..MaxIdx occur as path segments
MaxSaves == 1   \* handleSave runs at most MaxSaves times in a behaviour
MaxRows == 2    \* normalizeNodeData is applied to at most MaxRows rows

(***************************************************************************)
(* JavaScript values.  An array keeps its elements (a hole is Undef) and   *)
(* the named properties assigned to it; an object keeps its own keys.      *)
(***************************************************************************)
Undef == [t |-> "undef"]
Null == [t |-> "null"]
Num(n) == [t |-> "num", n |-> n]
Str(s) == [t |-> "str", s |-> s]
EmptyFn == [k \in {} |-> Null]
Obj(f) == [t |-> "obj", f |-> f]
ArrX(e, x) == [t |-> "arr", e |-> e, x |-> x]
Arr(e) == ArrX(e, EmptyFn)

\* f with key k set to v (own property assignment).
Put(f, k, v) == [j \in DOMAIN f \cup {k} |-> IF j = k THEN v ELSE f[j]]

\* A path segment: a string key or a numeric index.
K(s) == [idx |-> FALSE, s |-> s, i |-> 0]
I(n) == [idx |-> TRUE, s |-> "", i |-> n]

\* The property name a numeric index denotes on a non-array object.
IdxName(n) ==
  CASE n = 0 -> "0" [] n = 1 -> "1" [] n = 2 -> "2" [] n = 3 -> "3"
    [] n = 4 -> "4" [] OTHER -> "5"

PropName(seg) == IF seg.idx THEN IdxName(seg.i) ELSE seg.s

\* v[seg] for a value v that is neither null nor undefined.
Get(v, seg) ==
  CASE v.t = "obj" ->
         IF PropName(seg) \in DOMAIN v.f THEN v.f[PropName(seg)] ELSE Undef
    [] v.t = "arr" ->
         IF seg.idx
         THEN (IF seg.i < Len(v.e) THEN v.e[seg.i + 1] ELSE Undef)
         ELSE (IF seg.s \in DOMAIN v.x THEN v.x[seg.s] ELSE Undef)
    [] v.t = "str" -> IF seg.idx /\ seg.i = 0 THEN v ELSE Undef
    [] OTHER -> Undef

(***************************************************************************)
(* Texts.  kind "json": a text JSON.parse accepts, denoting val, laid out  *)
(* as lay ("min": JSON.stringify(v), "pretty": JSON.stringify(v, null, 2), *)
(* "edited": a text changed in place by applyEdits).  kind "invalid": a    *)
(* text JSON.parse rejects; val is the tree jsonc-parser recovers from it  *)
(* (Undef: none) and lay tells such texts apart.  kind "empty": "".        *)
(***************************************************************************)
Text(kind, val, lay) == [kind |-> kind, val |-> val, lay |-> lay]
EmptyText == Text("empty", Undef, "")
NoGraph == Text("none", Undef, "")

JSONparse_Lenient(text) ==
  IF text.kind \in {"json", "invalid"} THEN [ok |-> TRUE, val |-> text.val]
  ELSE [ok |-> FALSE, val |-> Undef]

\* JSON.parse: [ok, val]; ok = FALSE is a SyntaxError.
JSONparse(text) ==
  IF text.kind = "json" THEN [ok |-> TRUE, val |-> text.val]
  ELSE [ok |-> FALSE, val |-> Undef]

\* The value JSON.stringify serialises: named properties of arrays are
\* dropped, holes of arrays are null, undefined properties are dropped.
RECURSIVE ToJSON(_)
ToJSON(v) ==
  CASE v.t = "obj" ->
         Obj([k \in {j \in DOMAIN v.f : v.f[j] # Undef} |-> ToJSON(v.f[k])])
    [] v.t = "arr" ->
         Arr([n \in 1..Len(v.e) |->
                IF v.e[n] = Undef THEN Null ELSE ToJSON(v.e[n])])
    [] OTHER -> v

IsEmptyContainer(v) ==
  \/ v.t = "obj" /\ DOMAIN v.f = {}
  \/ v.t = "arr" /\ Len(v.e) = 0

\* JSON.stringify(v) and JSON.stringify(v, null, 2); the two texts are the
\* same for a scalar and for an empty container.
JSONstringify(v, indent) ==
  LET j == ToJSON(v)
  IN Text("json", j,
          IF indent /\ j.t \in {"obj", "arr"} /\ ~IsEmptyContainer(j)
          THEN "pretty" ELSE "min")

\* `${value}`: the text form of a row's value.
TemplateString(v) ==
  IF v.t = "str" THEN Text("invalid", Undef, v.s) ELSE JSONstringify(v, FALSE)

(***************************************************************************)
(* normalizeNodeData.  A row is [key, value, type]; key is [present, name] *)
(* (present = FALSE: the row has no key).                                  *)
(***************************************************************************)
NoKey == [present |-> FALSE, name |-> ""]
Key(s) == [present |-> TRUE, name |-> s]
Row(key, value, type) == [key |-> key, value |-> value, type |-> type]

\* Truthiness of row.key, as `!nodeRows[0].key` and `if (row.key)` test it.
KeyTruthy(key) == key.present /\ key.name # ""

\* The forEach of normalizeNodeData: obj after the rows were visited in order.
RECURSIVE CollectRows(_, _)
CollectRows(rows, obj) ==
  IF rows = <<>> THEN obj
  ELSE LET row == Head(rows)
       IN CollectRows(Tail(rows),
            IF row.type # "array" /\ row.type # "object" /\ KeyTruthy(row.key)
            THEN Put(obj, row.key.name, row.value)
            ELSE obj)

normalizeNodeData(nodeRows) ==
  IF Len(nodeRows) = 0 THEN Text("json", Obj(EmptyFn), "min")
  ELSE IF Len(nodeRows) = 1 /\ ~KeyTruthy(nodeRows[1].key)
       THEN TemplateString(nodeRows[1].value)
       ELSE JSONstringify(Obj(CollectRows(nodeRows, EmptyFn)), TRUE)

(***************************************************************************)
(* setValueAtPath.  The result is [ok, val]; ok = FALSE is a TypeError.    *)
(***************************************************************************)
Done(v) == [ok |-> TRUE, val |-> v]
Thrown == [ok |-> FALSE, val |-> Undef]

\* arr[i] = v on the elements e: an index past the end leaves holes.
SetElem(e, i, v) ==
  IF i < Len(e) THEN [e EXCEPT ![i + 1] = v]
  ELSE e \o [n \in 1..(i - Len(e)) |-> Undef] \o <<v>>

\* The slot a string segment continues in: {} replaces undefined and null.
StringSlot(cur) == IF cur = Undef \/ cur = Null THEN Obj(EmptyFn) ELSE cur

\* The loop and the final assignment of setValueAtPath from `target` on,
\* for a non-empty rest of the path; val is target after the assignments.
RECURSIVE SetIn(_, _, _)
SetIn(target, path, value) ==
  LET key == Head(path)
      rest == Tail(path)
  IN
  IF Len(path) = 1
  THEN \* target[last] = value
       CASE target.t = "obj" -> Done(Obj(Put(target.f, PropName(key), value)))
         [] target.t = "arr" ->
              IF key.idx
              THEN Done(ArrX(SetElem(target.e, key.i, value), target.x))
              ELSE Done(ArrX(target.e, Put(target.x, key.s, value)))
         [] OTHER -> Thrown
  ELSE IF key.idx
  THEN IF target.t # "arr"
       THEN \* target = target[key] = []; target = target[key]
            LET fresh == Arr(<<>>)
                r == SetIn(Get(fresh, key), rest, value)
            IN IF target.t = "obj" /\ r.ok
               THEN Done(Obj(Put(target.f, PropName(key), fresh)))
               ELSE Thrown
       ELSE LET cur == Get(target, key)
                slot == IF cur = Undef THEN Obj(EmptyFn) ELSE cur
                r == SetIn(slot, rest, value)
            IN IF r.ok
               THEN Done(ArrX(SetElem(target.e, key.i, r.val), target.x))
               ELSE Thrown
  ELSE CASE target.t = "obj" ->
              LET r == SetIn(StringSlot(Get(target, key)), rest, value)
              IN IF r.ok THEN Done(Obj(Put(target.f, key.s, r.val))) ELSE Thrown
         [] target.t = "arr" ->
              LET r == SetIn(StringSlot(Get(target, key)), rest, value)
              IN IF r.ok THEN Done(ArrX(target.e, Put(target.x, key.s, r.val)))
                 ELSE Thrown
         [] OTHER -> Thrown

setValueAtPath_ReturnsValue(obj, path, value) ==
  IF Len(path) = 0 \/ SetIn(obj, path, value).ok THEN Done(value) ELSE Thrown

setValueAtPath(obj, path, value) ==
  IF Len(path) = 0 THEN Done(value) ELSE SetIn(obj, path, value)

(***************************************************************************)
(* handleSave, lines 82-101: the existing value and the value to write.    *)
(***************************************************************************)
\* for (const seg of path) { if (existing == null) break; existing = existing[seg] }
RECURSIVE ExistingAt(_, _)
ExistingAt(existing, path) ==
  IF path = <<>> \/ existing = Null \/ existing = Undef THEN existing
  ELSE ExistingAt(Get(existing, Head(path)), Tail(path))

IsPlainObject_NoArrayCheck(v) == v.t \in {"obj", "arr"}

\* x && typeof x === "object" && !Array.isArray(x)
IsPlainObject(v) == v.t = "obj"

\* The own enumerable properties an object spread copies: the keys of an
\* object, the indices and named properties of an array.
OwnProps(v) ==
  CASE v.t = "obj" -> v.f
    [] v.t = "arr" ->
         [k \in {IdxName(n - 1) : n \in 1..Len(v.e)} \cup DOMAIN v.x |->
            IF k \in DOMAIN v.x THEN v.x[k]
            ELSE v.e[CHOOSE n \in 1..Len(v.e) : IdxName(n - 1) = k]]
    [] OTHER -> EmptyFn

Spread_ExistingWins(existing, parsed) ==
  Obj([k \in DOMAIN OwnProps(existing) \cup DOMAIN OwnProps(parsed) |->
         IF k \in DOMAIN OwnProps(existing) THEN OwnProps(existing)[k]
         ELSE OwnProps(parsed)[k]])

\* { ...existing, ...parsed }
Spread(existing, parsed) ==
  Obj([k \in DOMAIN OwnProps(existing) \cup DOMAIN OwnProps(parsed) |->
         IF k \in DOMAIN OwnProps(parsed) THEN OwnProps(parsed)[k]
         ELSE OwnProps(existing)[k]])

ValueToWrite(existing, parsed) ==
  IF IsPlainObject(existing) /\ IsPlainObject(parsed)
  THEN Spread(existing, parsed)
  ELSE parsed

(***************************************************************************)
(* modify and applyEdits of jsonc-parser, as handleSave calls them: the    *)
(* edit is computed on the tree parseTree recovers from the text.          *)
(***************************************************************************)
\* findNodeAtLocation: a string segment matches a property of an object
\* node, a numeric one an element of an array node.
RECURSIVE Find(_, _)
Find(node, path) ==
  IF node = Undef \/ path = <<>> THEN node
  ELSE LET seg == Head(path)
       IN IF seg.idx
          THEN (IF node.t = "arr" /\ seg.i < Len(node.e)
                THEN Find(node.e[seg.i + 1], Tail(path)) ELSE Undef)
          ELSE (IF node.t = "obj" /\ seg.s \in DOMAIN node.f
                THEN Find(node.f[seg.s], Tail(path)) ELSE Undef)

\* The tree with the node at `path` (which Find resolves) replaced.
RECURSIVE ReplaceAt(_, _, _)
ReplaceAt(node, path, new) ==
  IF path = <<>> THEN new
  ELSE LET seg == Head(path)
       IN IF seg.idx
          THEN Arr([node.e EXCEPT
                      ![seg.i + 1] = ReplaceAt(node.e[seg.i + 1], Tail(path), new)])
          ELSE Obj(Put(node.f, seg.s, ReplaceAt(node.f[seg.s], Tail(path), new)))

\* The value a missing parent is created as.
Wrap(seg, v) == IF seg.idx THEN Arr(<<v>>) ELSE Obj(Put(EmptyFn, seg.s, v))

\* setProperty: [ok, val]; val is the tree of the text after the edit,
\* ok = FALSE is the Error "Can not add ... to parent of type ...".
RECURSIVE setProperty(_, _, _)
setProperty(root, path, value) ==
  IF path = <<>> THEN Done(value)
  ELSE LET last == path[Len(path)]
           front == SubSeq(path, 1, Len(path) - 1)
           parent == Find(root, front)
       IN IF parent = Undef THEN setProperty(root, front, Wrap(last, value))
          ELSE IF parent.t = "obj" /\ ~last.idx
          THEN Done(ReplaceAt(root, front, Obj(Put(parent.f, last.s, value))))
          ELSE IF parent.t = "arr" /\ last.idx
          THEN Done(ReplaceAt(root, front,
                      Arr(IF last.i < Len(parent.e)
                          THEN [parent.e EXCEPT ![last.i + 1] = value]
                          ELSE Append(parent.e, value))))
          ELSE Thrown

\* applyEdits(original, modify(original, path, value, ...)): [ok, text].
\* The text stays one JSON.parse accepts or rejects as it was.
modify(original, path, value) ==
  LET r == setProperty(original.val, path, ToJSON(value))
  IN [ok |-> r.ok,
      text |-> Text(original.kind, r.val,
                    IF original.kind = "json" THEN "edited" ELSE original.lay)]

(***************************************************************************)
(* The stores.  st is [json, loading, graph, contents, hasChanges] of      *)
(* useJson, useGraph and useFile, with the calls of setJson and setGraph   *)
(* counted.                                                                *)
(***************************************************************************)
setJson_NoEditorSync(st, text) ==
  [st EXCEPT !.json = text, !.loading = FALSE, !.graph = text,
             !.setJsonCalls = @ + 1, !.setGraphCalls = @ + 1]

setJson(st, text) ==
  LET parsed == JSONparse(text)
      formatted == IF parsed.ok THEN JSONstringify(parsed.val, TRUE) ELSE text
  IN [st EXCEPT !.json = text, !.loading = FALSE, !.graph = text,
                !.contents = formatted, !.hasChanges = FALSE,
                !.setJsonCalls = @ + 1, !.setGraphCalls = @ + 1]

clear(st) == [st EXCEPT !.json = EmptyText, !.loading = FALSE, !.graph = NoGraph]

(***************************************************************************)
(* handleSave.                                                              *)
(***************************************************************************)
ErrNone == "null"

\* Lines 80-115, the inner try: [ok, st, existing, written]; ok = FALSE is
\* an exception the inner catch swallowed, st the stores at that point.
TryMinimalEdit(st, path, parsed) ==
  LET original == IF st.contents.kind # "empty" THEN st.contents ELSE st.json
      rootJson == JSONparse(st.json)
      existing == ExistingAt(rootJson.val, path)
      valueToWrite == ValueToWrite(existing, parsed)
      m == modify(original, path, valueToWrite)
  IN IF ~rootJson.ok
     THEN [ok |-> FALSE, st |-> st, existing |-> Undef, written |-> Undef]
     ELSE IF ~m.ok
     THEN [ok |-> FALSE, st |-> st, existing |-> existing, written |-> valueToWrite]
     ELSE [ok |-> TRUE,
           st |-> [setJson(st, m.text) EXCEPT !.contents = m.text,
                                              !.hasChanges = FALSE],
           existing |-> existing, written |-> valueToWrite]

FallbackRebuild_StoreFirst(st, path, parsed) ==
  LET rootJson == JSONparse(st.json)
      r == setValueAtPath(rootJson.val, path, parsed)
  IN IF ~rootJson.ok THEN [ok |-> FALSE, st |-> st, err |-> "SyntaxError"]
     ELSE IF ~r.ok
     THEN [ok |-> FALSE, st |-> setJson(st, JSONstringify(parsed, FALSE)),
           err |-> "TypeError"]
     ELSE [ok |-> TRUE, st |-> setJson(st, JSONstringify(r.val, FALSE)),
           err |-> ErrNone]

\* Lines 117-121: [ok, st, err]; ok = FALSE is an exception (err its
\* message) that reaches the outer catch, st the stores at that point.
FallbackRebuild(st, path, parsed) ==
  LET rootJson == JSONparse(st.json)
      updatedRoot == JSONparse(JSONstringify(rootJson.val, FALSE)).val
      r == setValueAtPath(updatedRoot, path, parsed)
  IN IF ~rootJson.ok THEN [ok |-> FALSE, st |-> st, err |-> "SyntaxError"]
     ELSE IF ~r.ok THEN [ok |-> FALSE, st |-> st, err |-> "TypeError"]
     ELSE [ok |-> TRUE, st |-> setJson(st, JSONstringify(r.val, FALSE)),
           err |-> ErrNone]

\* What a run of handleSave did: the stores after it, the error state, whether
\* setIsEditing(false) and onClose() ran, and the values it computed.
Outcome(branch, st, err, m, parsed) ==
  [branch |-> branch, st |-> st, error |-> err,
   closed |-> (err = ErrNone /\ branch # "no-node"),
   parsed |-> parsed, existing |-> m.existing, written |-> m.written]

NoValues == [existing |-> Undef, written |-> Undef]

AfterTry_NoReturn(st, m, path, parsed) ==
  LET f == FallbackRebuild(m.st, path, parsed)
  IN IF f.ok
     THEN Outcome(IF m.ok THEN "minimal" ELSE "fallback", f.st, ErrNone,
                  [m EXCEPT !.written = IF m.ok THEN m.written ELSE parsed], parsed)
     ELSE Outcome("fallback-error", f.st, f.err, m, parsed)

\* Lines 110-126: after the inner try, return on success, else fall back.
AfterTry(st, m, path, parsed) ==
  IF m.ok THEN Outcome("minimal", m.st, ErrNone, m, parsed)
  ELSE LET f == FallbackRebuild(m.st, path, parsed)
       IN IF f.ok
          THEN Outcome("fallback", f.st, ErrNone, [m EXCEPT !.written = parsed], parsed)
          ELSE Outcome("fallback-error", f.st, f.err, m, parsed)

handleSave(st, nodeData, editedContent) ==
  LET parsed == JSONparse(editedContent)
  IN IF ~nodeData.sel THEN Outcome("no-node", st, ErrNone, NoValues, Undef)
     ELSE IF ~parsed.ok
     THEN Outcome("edit-parse-error", st, "SyntaxError", NoValues, Undef)
     ELSE AfterTry(st, TryMinimalEdit(st, nodeData.path, parsed.val),
                   nodeData.path, parsed.val)

(***************************************************************************)
(* State.                                                                   *)
(***************************************************************************)
VARIABLES
  json, loading,          \* useJson
  graph,                  \* useGraph: the text the graph was last set from
  contents, hasChanges,   \* useFile
  selectedNode,           \* useGraph: nodeData, [sel, path, text]
  opened,                 \* the modal's `opened` prop
  isEditing, editedContent, error,   \* NodeModal's useState hooks
  saves,                  \* the number of handleSave runs so far
  last,                   \* the run of handleSave that has just ended, if any
  nodeRows, normalized, pc   \* a call of normalizeNodeData and its result

storeVars == <<json, loading, graph, contents, hasChanges>>
modalVars == <<selectedNode, opened, isEditing, editedContent, error>>
normVars == <<nodeRows, normalized, pc>>
vars == <<storeVars, modalVars, saves, last, normVars>>

\* The stores as handleSave finds them, no call counted yet.
Stores ==
  [json |-> json, loading |-> loading, graph |-> graph, contents |-> contents,
   hasChanges |-> hasChanges, setJsonCalls |-> 0, setGraphCalls |-> 0]

SetStores(st) ==
  /\ json' = st.json
  /\ loading' = st.loading
  /\ graph' = st.graph
  /\ contents' = st.contents
  /\ hasChanges' = st.hasChanges

NoNode == [sel |-> FALSE, path |-> <<>>, text |-> <<>>]
Node(path, text) == [sel |-> TRUE, path |-> path, text |-> text]

NoSave ==
  [branch |-> "none", pre |-> Stores, post |-> Stores, path |-> <<>>,
   edited |-> EmptyText, parsed |-> Undef, existing |-> Undef,
   written |-> Undef, error |-> ErrNone]

(***************************************************************************)
(* Inputs.                                                                  *)
(***************************************************************************)
Nums == {Num(n) : n \in 1..MaxNum}

\* Documents the application loads into useJson.
DocA == Obj([a |-> Obj([x |-> Num(1), y |-> Num(2)]), b |-> Num(1)])
DocB == Obj([a |-> Arr(<<Num(1), Null>>), b |-> Str("h")])
DocC == Arr(<<Obj([x |-> Num(1)]), Null>>)
Docs == {DocA, DocB, DocC}

\* Texts the user leaves in the text editor: documents other than the one
\* in useJson, nothing.
EditorTexts ==
  { JSONstringify(Obj([a |-> Obj([x |-> Num(1)])]), TRUE),
    JSONstringify(Arr(<<>>), TRUE),
    EmptyText }

Paths ==
  { <<>>, <<K("a")>>, <<K("a"), K("x")>>, <<K("b"), K("x")>>, <<I(0)>> }
    \cup { <<I(i), K("x")>> : i \in 0..MaxIdx }
    \cup { <<K("a"), I(i)>> : i \in 1..MaxIdx }

\* The rows the graph gives the node at a path: those of a leaf for an
\* element of an array, those of an object otherwise.
NodeText(path) ==
  IF path # <<>> /\ path[Len(path)].idx
  THEN <<Row(NoKey, Str("h"), "string")>>
  ELSE <<Row(Key("x"), Num(1), "number"), Row(Key("a"), Num(2), "object")>>

\* Values the user types into the textarea.
EditVals ==
  Nums \cup { Null, Arr(<<Num(MaxNum)>>), Obj([y |-> Num(MaxNum), z |-> Null]) }

NotJson == Text("invalid", Undef, "{not json")

\* The value at the selected path of the document, serialised again.
Reserialized ==
  LET doc == JSONparse(json)
      v == IF doc.ok THEN Find(doc.val, selectedNode.path) ELSE Undef
  IN IF v = Undef THEN {} ELSE {JSONstringify(v, FALSE)}

(***************************************************************************)
(* Operations.                                                              *)
(***************************************************************************)
\* A behaviour is followed until handleSave has run MaxSaves times.
Running == saves < MaxSaves

Init ==
  /\ json = Text("json", Obj(EmptyFn), "min")
  /\ loading = TRUE
  /\ graph = NoGraph
  /\ contents = EmptyText
  /\ hasChanges = FALSE
  /\ selectedNode = NoNode
  /\ opened = FALSE
  /\ isEditing = FALSE
  /\ editedContent = Text("json", Obj(EmptyFn), "min")
  /\ error = ErrNone
  /\ saves = 0
  /\ last = NoSave
  /\ nodeRows = <<>>
  /\ normalized = EmptyText
  /\ pc = "off"

\* The effect on [nodeData, opened], lines 41-45, for the node nd.
Effect(nd) ==
  /\ editedContent' = normalizeNodeData(nd.text)
  /\ isEditing' = FALSE
  /\ error' = ErrNone

\* The application stores a document: useJson.setJson(JSON.stringify(doc)).
LoadDocument(d) ==
  /\ Running
  /\ SetStores(setJson(Stores, JSONstringify(d, FALSE)))
  /\ last' = NoSave
  /\ UNCHANGED <<modalVars, saves, normVars>>

\* useJson.clear().
Clear ==
  /\ Running
  /\ SetStores(clear(Stores))
  /\ last' = NoSave
  /\ UNCHANGED <<modalVars, saves, normVars>>

\* The user types in the text editor: useFile holds the text, useJson lags.
SetContents(t) ==
  /\ Running
  /\ ~opened
  /\ contents' = t
  /\ hasChanges' = TRUE
  /\ last' = NoSave
  /\ UNCHANGED <<json, loading, graph, modalVars, saves, normVars>>

\* The user clicks a node of the graph: it is selected and the modal opens.
SelectNode(nd) ==
  /\ Running
  /\ ~opened
  /\ selectedNode' = nd
  /\ opened' = TRUE
  /\ Effect(nd)
  /\ last' = NoSave
  /\ UNCHANGED <<storeVars, saves, normVars>>

\* The modal opens on the node selected before, if any.
OpenModal ==
  /\ Running
  /\ ~opened
  /\ opened' = TRUE
  /\ Effect(selectedNode)
  /\ last' = NoSave
  /\ UNCHANGED <<storeVars, selectedNode, saves, normVars>>

\* The close button: onClose.
CloseModal ==
  /\ Running
  /\ opened
  /\ opened' = FALSE
  /\ Effect(selectedNode)
  /\ last' = NoSave
  /\ UNCHANGED <<storeVars, selectedNode, saves, normVars>>

\* The Edit button, line 145.
StartEdit ==
  /\ Running
  /\ opened /\ ~isEditing
  /\ isEditing' = TRUE
  /\ last' = NoSave
  /\ UNCHANGED <<storeVars, selectedNode, opened, editedContent, error, saves, normVars>>

\* The textarea's onChange, line 174.
ChangeText(t) ==
  /\ Running
  /\ opened /\ isEditing
  /\ editedContent' = t
  /\ last' = NoSave
  /\ UNCHANGED <<storeVars, selectedNode, opened, isEditing, error, saves, normVars>>

\* The Save button: handleSave, then the effect if onClose closed the modal.
HandleSave ==
  /\ Running
  /\ opened /\ isEditing
  /\ LET out == handleSave(Stores, selectedNode, editedContent)
     IN /\ SetStores(out.st)
        /\ IF out.closed
           THEN opened' = FALSE /\ Effect(selectedNode)
           ELSE /\ error' = out.error
                /\ UNCHANGED <<opened, isEditing, editedContent>>
        /\ last' = [branch |-> out.branch, pre |-> Stores, post |-> out.st,
                    path |-> selectedNode.path, edited |-> editedContent,
                    parsed |-> out.parsed, existing |-> out.existing,
                    written |-> out.written, error |-> out.error]
  /\ saves' = saves + 1
  /\ UNCHANGED <<selectedNode, normVars>>

\* The Cancel button: handleCancel, lines 129-133.
HandleCancel ==
  /\ Running
  /\ opened /\ isEditing
  /\ Effect(selectedNode)
  /\ last' = NoSave
  /\ UNCHANGED <<storeVars, selectedNode, opened, saves, normVars>>

Next ==
  \/ \E d \in Docs : LoadDocument(d)
  \/ Clear
  \/ \E t \in EditorTexts : SetContents(t)
  \/ \E p \in Paths : SelectNode(Node(p, NodeText(p)))
  \/ OpenModal
  \/ CloseModal
  \/ StartEdit
  \/ \E t \in {JSONstringify(v, FALSE) : v \in EditVals} \cup {NotJson} \cup Reserialized :
       ChangeText(t)
  \/ HandleSave
  \/ HandleCancel

Spec == Init /\ [][Next]_vars

(***************************************************************************)
(* normalizeNodeData on its own: every sequence of at most MaxRows rows.   *)
(***************************************************************************)
RowKeys == {NoKey, Key(""), Key("a"), Key("b")}

RowUniverse ==
  { Row(k, v, "number") : k \in RowKeys, v \in Nums }
    \cup { Row(k, Str("h"), "string") : k \in RowKeys }
    \cup { Row(k, Num(2), ty) : k \in RowKeys, ty \in {"object", "array"} }

RowSeqs == UNION { [1..n -> RowUniverse] : n \in 0..MaxRows }

InitNorm ==
  /\ json = Text("json", Obj(EmptyFn), "min")
  /\ loading = TRUE
  /\ graph = NoGraph
  /\ contents = EmptyText
  /\ hasChanges = FALSE
  /\ selectedNode = NoNode
  /\ opened = FALSE
  /\ isEditing = FALSE
  /\ editedContent = Text("json", Obj(EmptyFn), "min")
  /\ error = ErrNone
  /\ saves = 0
  /\ last = NoSave
  /\ nodeRows \in RowSeqs
  /\ normalized = EmptyText
  /\ pc = "call"

Normalize ==
  /\ pc = "call"
  /\ normalized' = normalizeNodeData(nodeRows)
  /\ pc' = "done"
  /\ UNCHANGED <<storeVars, modalVars, saves, last, nodeRows>>

NextNorm == Normalize

SpecNorm == InitNorm /\ [][NextNorm]_vars

(***************************************************************************)
(* Properties.                                                              *)
(***************************************************************************)
\* A run of handleSave has just ended and stored a new document.
Saved == last.branch \in {"minimal", "fallback"}

PlainObj(v) == v.t = "obj"
BothPlain == PlainObj(last.existing) /\ PlainObj(last.parsed)

\* w is the shallow merge of the objects ex and pa, pa winning.
IsMergeOf(w, ex, pa) ==
  /\ w.t = "obj"
  /\ DOMAIN w.f = DOMAIN ex.f \cup DOMAIN pa.f
  /\ \A k \in DOMAIN pa.f : w.f[k] = pa.f[k]
  /\ \A k \in DOMAIN ex.f \ DOMAIN pa.f : w.f[k] = ex.f[k]

\* The text handleSave rewrote: the editor's, or the document when that is
\* empty, in the minimal edit; the document in the fallback.
Rewritten ==
  IF last.branch = "minimal" /\ last.pre.contents.kind # "empty"
  THEN last.pre.contents ELSE last.pre.json

\* The rewritten text was JSON with a value at the path.
PathInRewritten ==
  Rewritten.kind = "json" /\ Find(Rewritten.val, last.path) # Undef

\* The stored document parses and has v at the path.
StoredAtPathIs(v) ==
  json.kind = "json" /\ Find(json.val, last.path) = v

\* C1 as stated: after every successful save with a plain object at the path
\* of the document and a plain object edited, the stored document has the
\* shallow merge of the two at the path.
C1_StoredIsMerge ==
  (Saved /\ BothPlain) =>
     /\ json.kind = "json"
     /\ ExistingAt(json.val, last.path).t = "obj"
     /\ IsMergeOf(ExistingAt(json.val, last.path), last.existing, last.parsed)

\* C1 amended: after a successful save through the minimal edit, with plain
\* objects on both sides, the value handed to the edit is the shallow merge,
\* and it is the value at the path of the stored document when the rewritten
\* text was JSON with a value at the path.
C1_MinimalEditWritesMerge ==
  (last.branch = "minimal" /\ BothPlain) =>
     /\ IsMergeOf(last.written, last.existing, last.parsed)
     /\ PathInRewritten => StoredAtPathIs(last.written)

C1_Witness ==
  /\ last.branch = "minimal" /\ BothPlain /\ PathInRewritten
  /\ DOMAIN last.existing.f \ DOMAIN last.parsed.f # {}
  /\ DOMAIN last.parsed.f \ DOMAIN last.existing.f # {}
  /\ \E k \in DOMAIN last.existing.f \cap DOMAIN last.parsed.f :
        last.existing.f[k] # last.parsed.f[k]

\* C2: after every successful save in which the existing value or the edited
\* value is not a plain object, the value written is the edited value itself,
\* and it is the value at the path of the stored document when the rewritten
\* text was JSON with a value at the path.
C2_NoMergeWritesEdited ==
  (Saved /\ ~BothPlain) =>
     /\ last.written = last.parsed
     /\ PathInRewritten => StoredAtPathIs(last.parsed)

C2_Witness ==
  /\ last.branch = "minimal" /\ PathInRewritten
  /\ last.existing.t = "arr" /\ last.parsed.t = "arr"
  /\ Len(last.existing.e) > Len(last.parsed.e)
  /\ StoredAtPathIs(last.parsed)

\* The stores are as they were before the run of handleSave.
StoresUntouched ==
  /\ json = last.pre.json
  /\ contents = last.pre.contents
  /\ hasChanges = last.pre.hasChanges
  /\ graph = last.pre.graph
  /\ last.post.setJsonCalls = 0
  /\ last.post.setGraphCalls = 0

\* C3 as stated: when the edited text does not parse, handleSave reports an
\* error, runs no later step and leaves document, editor and graph alone.
C3_InvalidEditReportsError ==
  (last.branch # "none" /\ last.edited.kind # "json") =>
     /\ error # ErrNone
     /\ last.branch = "edit-parse-error"
     /\ StoresUntouched

\* C3 amended: with a node selected, when the edited text does not parse,
\* handleSave reports an error, runs no later step and leaves document,
\* editor and graph alone.
C3_InvalidEditReportsErrorForNode ==
  (last.branch # "none" /\ last.edited.kind # "json" /\ selectedNode.sel) =>
     /\ error # ErrNone
     /\ last.branch = "edit-parse-error"
     /\ StoresUntouched

C3_Witness ==
  /\ last.branch = "edit-parse-error" /\ last.edited = NotJson
  /\ selectedNode.sel /\ error # ErrNone
  /\ last.pre.json.kind = "json" /\ last.pre.hasChanges

\* The minimal edit failed in a run of handleSave on a valid document.
FellBack ==
  last.branch \in {"fallback", "fallback-error"} /\ last.pre.json.kind = "json"

\* C4: when the minimal edit fails on a valid document, the fallback stores a
\* document with the edited value at the path and every top-level key, other
\* than the one the path goes through, as before.
C4_FallbackCorrect ==
  FellBack =>
     /\ last.branch = "fallback"
     /\ json.kind = "json"
     /\ ExistingAt(json.val, last.path) = last.parsed
     /\ \A k \in DOMAIN OwnProps(last.pre.json.val) :
           (last.path = <<>> \/ k # PropName(Head(last.path))) =>
              /\ k \in DOMAIN OwnProps(json.val)
              /\ OwnProps(json.val)[k] = OwnProps(last.pre.json.val)[k]

C6_OneSetJson ==
  Saved => (last.post.setJsonCalls = 1 /\ ~hasChanges)

C6_Witness ==
  /\ last.branch = "minimal" /\ last.post.setJsonCalls = 1
  /\ last.pre.hasChanges /\ ~hasChanges /\ json # last.pre.json

\* C7: the fallback succeeds for every path whenever the document parses.
C7_FallbackTotal ==
  FellBack => (last.branch = "fallback" /\ error = ErrNone)

\* C8 as stated: saving at a path present in a valid document the value that
\* is there, serialised again, stores a document that parses equal to the
\* original, through the minimal edit and through the fallback.
C8_RoundTrip ==
  ( /\ Saved
    /\ last.pre.json.kind = "json"
    /\ Find(last.pre.json.val, last.path) # Undef
    /\ last.edited = JSONstringify(Find(last.pre.json.val, last.path), FALSE) )
  => (json.kind = "json" /\ json.val = last.pre.json.val)

\* C8 amended: the same, for a save through the fallback, and for a save
\* through the minimal edit when the text it rewrites (useFile.contents, or
\* the document when that is empty) is JSON that parses equal to the document.
C8_RoundTripInSync ==
  ( /\ Saved
    /\ last.pre.json.kind = "json"
    /\ Rewritten.kind = "json" /\ Rewritten.val = last.pre.json.val
    /\ Find(last.pre.json.val, last.path) # Undef
    /\ last.edited = JSONstringify(Find(last.pre.json.val, last.path), FALSE) )
  => (json.kind = "json" /\ json.val = last.pre.json.val)

C8_Witness ==
  /\ last.branch = "minimal" /\ last.pre.json.kind = "json"
  /\ last.pre.contents.kind = "json" /\ last.pre.contents.val = last.pre.json.val
  /\ last.path # <<>> /\ Find(last.pre.json.val, last.path).t = "obj"
  /\ last.edited = JSONstringify(Find(last.pre.json.val, last.path), FALSE)
  /\ json.kind = "json" /\ json.val = last.pre.json.val /\ json # last.pre.json

\* The rows normalizeNodeData keeps according to C9.
KeptRows(rows) ==
  { n \in 1..Len(rows) :
      rows[n].key.present /\ rows[n].type \notin {"object", "array"} }

\* C9: zero rows give "{}"; one row without a key gives the text of its
\* value; every other input gives the pretty-printed object of the rows that
\* have a key and are no containers, the later row winning on a repeated key.
C9_NormalizeCases ==
  pc = "done" =>
    normalized =
      IF Len(nodeRows) = 0 THEN Text("json", Obj(EmptyFn), "min")
      ELSE IF Len(nodeRows) = 1 /\ ~nodeRows[1].key.present
      THEN TemplateString(nodeRows[1].value)
      ELSE JSONstringify(
             Obj([k \in {nodeRows[n].key.name : n \in KeptRows(nodeRows)} |->
                    LET at == {n \in KeptRows(nodeRows) : nodeRows[n].key.name = k}
                        lastAt == CHOOSE n \in at : \A m \in at : m <= n
                    IN nodeRows[lastAt].value]),
             TRUE)

\* C9 does hold of the rows none of whose keys is the empty string.
NormalizeCasesNonEmptyKeys ==
  (\A n \in 1..Len(nodeRows) : nodeRows[n].key # Key("")) => C9_NormalizeCases

\* C10: after every successful save the graph was set from the text now in
\* useJson.json, once per setJson call, and useFile.contents is that text or
\* parses to the same value, with hasChanges false.
C10_ViewsAgree ==
  Saved =>
     /\ graph = json
     /\ last.post.setGraphCalls = last.post.setJsonCalls
     /\ \/ contents = json
        \/ (contents.kind = "json" /\ json.kind = "json" /\ contents.val = json.val)
     /\ ~hasChanges

C10_Witness ==
  /\ last.branch = "fallback" /\ graph = json
  /\ contents # json /\ contents.kind = "json" /\ contents.val = json.val
  /\ last.pre.contents # contents /\ last.pre.hasChanges

====
